---- MODULE Spec2Model ----
(***************************************************************************)
(* Leaflet flyer route planner (backend/): the router's edge-cover walk,   *)
(* its turn-by-turn list and distance, the partitioner, the Google-Maps    *)
(* URL encoder and the /api/generate pipeline with its in-memory job       *)
(* store.  Each component has its own specification over the shared        *)
(* variables; the variables of the other components stay at their idle     *)
(* values.                                                                 *)
(***************************************************************************)
EXTENDS Integers, Sequences, FiniteSets, TLC

VARIABLES
    \* ---- router (routing.py) ----
    zone,             \* the zone subgraph handed to generate_route_for_zone
    travel_mode,      \* 'walking' | anything else (driven as 'driving')
    return_to_start,  \* request flag
    G_route,          \* the graph the walk runs on
    start_node,       \* result of find_nearest_node
    rpc,              \* position in generate_simple_route: idle | loop | done
    route,            \* the node walk built so far
    visited_edges,    \* set of sorted endpoint pairs
    current,          \* current node of the walk
    iterations,       \* loop counter
    stop_reason,      \* how the while loop ended
    route_data        \* dictionary returned by generate_route_for_zone

VARIABLES
    \* ---- ingest and partitioner (network.py, partition.py) ----
    raw_graph,        \* the provider's road network
    graph,            \* G after filter_residential_roads
    num_routes,       \* requested number of routes
    ppc,              \* fetched | ingested | no_roads | partitioned
    cluster_labels,   \* zone label of every edge
    zones             \* the list partition_graph_into_zones returns

routeVars == <<zone, travel_mode, return_to_start, G_route, start_node, rpc, route,
               visited_edges, current, iterations, stop_reason, route_data>>

VARIABLES
    \* ---- Google-Maps URL encoder (export.py) ----
    waypoints,        \* the waypoint list handed to generate_google_maps_url
    url_mode,         \* its travel_mode argument
    upc,              \* input | done
    gmaps_url         \* the URL returned

partVars == <<raw_graph, graph, num_routes, ppc, cluster_labels, zones>>

urlVars == <<waypoints, url_mode, upc, gmaps_url>>

VARIABLES
    \* ---- /api/generate and the job store (main.py) ----
    jobs,             \* the in-memory job store: job id -> result
    request,          \* the GenerateRequest being handled
    gpc,              \* position in generate_routes
    stages,           \* the pipeline steps the handler has run for the request
    G_pruned,         \* G after fetch_road_network and filter_residential_roads
    estimated_addresses, \* the edge attribute the density step sets
    job_zones,        \* zones
    flyers_per_route, \* flyers_per_route
    routes,           \* routes
    status,           \* status code of the response
    served            \* number of requests received

genVars == <<jobs, request, gpc, stages, G_pruned, estimated_addresses, job_zones,
             flyers_per_route, routes, status, served>>

VARIABLES
    \* ---- circle areas (area.py, main.py step 1) ----
    center_lat,       \* request.area["center"]["lat"]
    center_lng,       \* request.area["center"]["lng"]
    radius_m,         \* request.area["radius_m"]
    apc,              \* request | geometry | provider
    polygon           \* the polygon create_circle_polygon returned

areaVars == <<center_lat, center_lng, radius_m, apc, polygon>>

VARIABLES
    \* ---- export endpoints (main.py) ----
    export_request,   \* the export request being answered
    export_response   \* its response

exportVars == <<export_request, export_response>>

VARIABLES
    \* ---- density estimation (density.py, density stage of main.py) ----
    density_G,         \* the edges of the pruned graph, in G.edges order
    buildings,         \* the building list of fetch_buildings
    edge_addresses,    \* estimated_addresses of each edge
    total_addresses,   \* total_addresses of the density stage
    dpc                \* position of the density stage

densityVars == <<density_G, buildings, edge_addresses, total_addresses, dpc>>

VARIABLES
    \* ---- ingest (network.py) ----
    provider_G,   \* what the map provider yields, edge lengths added
    fetched_G,    \* the graph fetch_road_network returns
    ingested_G,   \* the graph filter_residential_roads returns
    ipc           \* position of the ingest

ingestVars == <<provider_G, fetched_G, ingested_G, ipc>>

vars == <<routeVars, partVars, urlVars, genVars, areaVars, exportVars,
          densityVars, ingestVars>>

\* what the actions of one component leave alone
notRoute == <<partVars, urlVars, genVars, areaVars, exportVars, densityVars,
              ingestVars>>
notPart == <<routeVars, urlVars, genVars, areaVars, exportVars, densityVars,
             ingestVars>>
notUrl == <<routeVars, partVars, genVars, areaVars, exportVars, densityVars,
            ingestVars>>
notGen == <<routeVars, partVars, urlVars, areaVars, exportVars, densityVars,
            ingestVars>>
notArea == <<routeVars, partVars, urlVars, genVars, exportVars, densityVars,
             ingestVars>>
notExport == <<routeVars, partVars, urlVars, genVars, areaVars, densityVars,
               ingestVars>>
notDensity == <<routeVars, partVars, urlVars, genVars, areaVars, exportVars,
                ingestVars>>
notIngest == <<routeVars, partVars, urlVars, genVars, areaVars, exportVars,
               densityVars>>

----------------------------------------------------------------------------
(* Bounds of the model *)

MaxNodes == 3
MaxEdges == 2
MaxRawNodes == 4
MaxRawEdges == 3
MaxZones == 2
MaxWaypoints == 50
MaxRequests == 2
MaxAddresses == 1
MaxFlyers == 7

Nodes == 1..MaxNodes

\* A highway tag as the provider yields it: a scalar string or a list of strings
Scalar(x) == [list |-> FALSE, items |-> <<x>>]

\* name / length pairs an edge can carry
EdgeAttrs ==
    { [name |-> "Elm St", length |-> 1], [name |-> "Oak Ave", length |-> 2] }

----------------------------------------------------------------------------
(* Small helpers *)

Min(S) == CHOOSE x \in S : \A y \in S : x <= y

RECURSIVE SumSeq(_)
SumSeq(s) == IF s = <<>> THEN 0 ELSE Head(s) + SumSeq(Tail(s))

\* a // b of Python for b > 0 (floor division)
FloorDiv(a, b) == a \div b

\* int(a / b) of Python for b > 0: true division, then truncation toward zero
TruncDiv(a, b) == IF a >= 0 THEN a \div b ELSE -((-a) \div b)

----------------------------------------------------------------------------
(* Directed multigraphs (networkx.MultiDiGraph): nodes and keyed edges.    *)
(* Node iteration order is ascending node id.                              *)

\* The graph whose edges were added in the order of the sequence s of
\* <<<<u, v>>, attributes>>; parallel edges get keys 0, 1, ... as they come.
EdgeKey(s, i) == Cardinality({j \in 1..(i - 1) : s[j][1] = s[i][1]})

GraphOfSeq(s, hw) ==
    LET E == { [u |-> s[i][1][1], v |-> s[i][1][2], key |-> EdgeKey(s, i),
                name |-> s[i][2].name, length |-> s[i][2].length,
                highway |-> hw[i]] : i \in DOMAIN s }
    IN  [nodes |-> {e.u : e \in E} \cup {e.v : e \in E}, edges |-> E]

\* the sequences of n node pairs of P in ascending order: every multiset of
\* pairs once
PairBefore(p, q) == p[1] < q[1] \/ (p[1] = q[1] /\ p[2] <= q[2])

RECURSIVE SortedPairSeqs(_, _)
SortedPairSeqs(P, n) ==
    IF n = 0 THEN {<<>>}
    ELSE { Append(x[1], x[2]) :
              x \in {y \in SortedPairSeqs(P, n - 1) \X P :
                        n = 1 \/ PairBefore(y[1][n - 1], y[2])} }

\* the edge sequences of n edges between the pairs of P with attributes from A
EdgeSeqs(P, n, A) ==
    { [i \in 1..n |-> <<ps[i], a[i]>>] : ps \in SortedPairSeqs(P, n), a \in [1..n -> A] }

\* the provider's road classes in the model: one that the filter keeps and one
\* that it drops
RawHighways == {Scalar("residential"), Scalar("motorway")}

\* G.get_edge_data(a, b): the parallel edges from a to b ({} when there are none)
get_edge_data(G, a, b) == {e \in G.edges : e.u = a /\ e.v = b}

\* list(edge_data.keys())[0]: the first key of a non-empty edge_data
FirstEdge(ed) == CHOOSE e \in ed : \A f \in ed : e.key <= f.key

\* the edge data the router and the turn-by-turn list read for the step a -> b:
\* the forward edges, else the reverse ones
StepEdgeData(G, a, b) ==
    IF get_edge_data(G, a, b) # {} THEN get_edge_data(G, a, b)
    ELSE get_edge_data(G, b, a)

\* nx.weakly_connected_components, nx.is_weakly_connected (on a graph with at
\* least one node)
RECURSIVE Reach(_, _)
Reach(G, S) ==
    LET T == S \cup {e.v : e \in {f \in G.edges : f.u \in S}}
               \cup {e.u : e \in {f \in G.edges : f.v \in S}}
    IN  IF T = S THEN S ELSE Reach(G, T)

weakly_connected_components(G) == {Reach(G, {n}) : n \in G.nodes}

\* one component holds every node
is_weakly_connected(G) == \E n \in G.nodes : Reach(G, {n}) = G.nodes

----------------------------------------------------------------------------
(* network.py, partition.py *)

EmptyGraph == [nodes |-> {}, edges |-> {}]

\* the road class filter_residential_roads and get_road_stats read: the first
\* element when the tag is a list
HighwayClass(tag) == tag.items[1]

keep_types ==
    {"residential", "living_street", "service", "unclassified", "tertiary",
     "secondary", "tertiary_link", "secondary_link"}

\* a filter that leaves the isolated nodes in
filter_residential_roads_Isolates(G) ==
    [nodes |-> G.nodes,
     edges |-> {e \in G.edges :
                   \/ HighwayClass(e.highway) \in keep_types
                   \/ HighwayClass(e.highway) \in {"footway", "path", "pedestrian"}}]

\* filter_residential_roads: drop the edges of the other classes, then the nodes
\* left without an edge
filter_residential_roads(G) ==
    LET kept == {e \in G.edges :
                    \/ HighwayClass(e.highway) \in keep_types
                    \/ HighwayClass(e.highway) \in {"footway", "path", "pedestrian"}}
    IN  [nodes |-> {n \in G.nodes : \E e \in kept : e.u = n \/ e.v = n},
         edges |-> kept]

\* G.edge_subgraph(edges)
edge_subgraph(G, E) == [nodes |-> {e.u : e \in E} \cup {e.v : e \in E}, edges |-> E]

\* G.subgraph(nodes)
subgraph(G, N) == [nodes |-> N, edges |-> {e \in G.edges : e.u \in N /\ e.v \in N}]

\* the components max(components, key=len) can return
LargestComponents(G) ==
    {c \in weakly_connected_components(G) :
        \A d \in weakly_connected_components(G) : Cardinality(d) <= Cardinality(c)}

\* a zone materialisation by the nodes of the label's edges
ZoneSubgraphs_NodeInduced(G, E) == {subgraph(G, edge_subgraph(G, E).nodes)}

\* the subgraphs the loop body of partition_graph_into_zones can build for the
\* non-empty edge list E of one label
ZoneSubgraphs(G, E) ==
    IF is_weakly_connected(edge_subgraph(G, E)) THEN {edge_subgraph(G, E)}
    ELSE {subgraph(edge_subgraph(G, E), c) : c \in LargestComponents(edge_subgraph(G, E))}

\* the zone lists the labels zone_id, zone_id + 1, .., K - 1 can add
RECURSIVE ZonesFrom(_, _, _, _)
ZonesFrom(G, labels, zone_id, K) ==
    IF zone_id >= K THEN {<<>>}
    ELSE LET E    == {e \in G.edges : labels[e] = zone_id}
             rest == ZonesFrom(G, labels, zone_id + 1, K)
         IN  IF E = {} THEN rest
             ELSE { <<[nodes |-> z.nodes, edges |-> z.edges, zone_id |-> zone_id]>> \o r
                        : z \in ZoneSubgraphs(G, E), r \in rest }

\* partition_graph_into_zones(G, K, .) once the clustering (k-means on the
\* replicated midpoints, then the majority vote) has labelled the edges: the lists
\* it can return.  The single zone of K = 1 is G.copy(), which carries no zone_id.
partition_graph_into_zones(G, K, labels) ==
    IF K = 1 THEN {<<[nodes |-> G.nodes, edges |-> G.edges, zone_id |-> -1]>>}
    ELSE ZonesFrom(G, labels, 0, K)

\* the labels the clustering step can give: cluster_labels starts as zeros and
\* every edge gets a label below K
ClusterLabellings(G, K) == [G.edges -> 0..(K - 1)]

----------------------------------------------------------------------------
(* Ingest and partition specification: provider graph -> pruned graph -> zones *)

\* the provider's graphs (graph_from_polygon with retain_all=False): weakly
\* connected, nodes numbered 1..n, every edge residential or motorway.  Neither
\* the filter nor the partitioner reads the direction of an edge, so each road
\* is listed from its lower to its higher node.
RawPairs == {p \in (1..MaxRawNodes) \X (1..MaxRawNodes) : p[1] < p[2]}

RawGraphs ==
    { G \in UNION { {GraphOfSeq(s, hw)
                        : s \in EdgeSeqs(RawPairs, n, {[name |-> "Elm St", length |-> 1]}),
                          hw \in [1..n -> RawHighways]}
                        : n \in 1..MaxRawEdges } :
        /\ G.nodes = 1..Cardinality(G.nodes)
        /\ is_weakly_connected(G) }

PartIdle ==
    /\ raw_graph = EmptyGraph
    /\ graph = EmptyGraph
    /\ num_routes = 0
    /\ ppc = "idle"
    /\ cluster_labels = <<>>
    /\ zones = <<>>

PartInit ==
    /\ raw_graph \in RawGraphs
    /\ graph = EmptyGraph
    /\ num_routes \in 1..MaxZones
    /\ ppc = "fetched"
    /\ cluster_labels = <<>>
    /\ zones = <<>>

\* G = filter_residential_roads(G)
Ingest ==
    /\ ppc = "fetched"
    /\ graph' = filter_residential_roads(raw_graph)
    /\ ppc' = "ingested"
    /\ UNCHANGED <<raw_graph, num_routes, cluster_labels, zones>>
    /\ UNCHANGED notPart

\* len(G.edges) == 0: the request ends before the partitioner
NoRoads ==
    /\ ppc = "ingested"
    /\ graph.edges = {}
    /\ ppc' = "no_roads"
    /\ UNCHANGED <<raw_graph, graph, num_routes, cluster_labels, zones>>
    /\ UNCHANGED notPart

\* zones = partition_graph_into_zones(G, min(num_routes, len(G.edges)), .)
Partition ==
    /\ ppc = "ingested"
    /\ graph.edges # {}
    /\ LET actual_zones == Min({num_routes, Cardinality(graph.edges)})
       IN  \E labels \in ClusterLabellings(graph, actual_zones) :
              /\ cluster_labels' = labels
              /\ zones' \in partition_graph_into_zones(graph, actual_zones, labels)
    /\ ppc' = "partitioned"
    /\ UNCHANGED <<raw_graph, graph, num_routes>>
    /\ UNCHANGED notPart

PartNext ==
    \/ Ingest
    \/ NoRoads
    \/ Partition


----------------------------------------------------------------------------
(* routing.py *)

\* tuple(sorted([a, b]))
SortedPair(a, b) == IF a <= b THEN <<a, b>> ELSE <<b, a>>

\* A route graph (what generate_simple_route works on) is kept as networkx keeps
\* it: the edges, the adjacency of every node and, for shortest_path, the weight of
\* every step (the least length among the parallel edges).
WithAdjacency(directed, nodes, E) ==
    LET Out(n) == {e.v : e \in {x \in E : x.u = n}}
                    \cup (IF directed THEN {} ELSE {e.u : e \in {x \in E : x.v = n}})
        Par(a, b) == {x \in E : (x.u = a /\ x.v = b)
                                    \/ (~directed /\ x.u = b /\ x.v = a)}
    IN  [directed |-> directed, nodes |-> nodes, edges |-> E,
         adj |-> [n \in nodes |-> Out(n)],
         weight |-> [n \in nodes |->
                       [m \in Out(n) |-> Min({e.length : e \in Par(n, m)})]]]

\* zone.to_undirected(): one edge per unordered pair and key; when both directions
\* carry the key, the data of the edge leaving the later node wins.
to_undirected(G) ==
    LET Und(e) == [u |-> SortedPair(e.u, e.v)[1], v |-> SortedPair(e.u, e.v)[2],
                   key |-> e.key, length |-> e.length]
        Wins(e) == \A f \in G.edges :
                      (SortedPair(f.u, f.v) = SortedPair(e.u, e.v) /\ f.key = e.key)
                          => f.u <= e.u
    IN  WithAdjacency(FALSE, G.nodes, {Und(e) : e \in {x \in G.edges : Wins(x)}})

\* G_route of generate_route_for_zone: zone.to_undirected() for walking,
\* zone.copy() otherwise
RouteGraph(G, mode) ==
    IF mode = "walking" THEN to_undirected(G)
    ELSE WithAdjacency(TRUE, G.nodes,
            {[u |-> e.u, v |-> e.v, key |-> e.key, length |-> e.length]
                : e \in G.edges})

\* G.neighbors(n): successors in a directed graph
neighbors(R, n) == R.adj[n]

\* the endpoint pairs of G.edges()
EdgePairs(R) == {SortedPair(e.u, e.v) : e \in R.edges}

\* weight of the step a -> b for shortest_path(weight="length")
StepWeight(R, a, b) == R.weight[a][b]

RECURSIVE SumLengthsOf(_)
SumLengthsOf(E) ==
    IF E = {} THEN 0
    ELSE LET e == CHOOSE x \in E : TRUE IN e.length + SumLengthsOf(E \ {e})

SumLengths(R) == SumLengthsOf(R.edges)

\* the nodes nx.has_path(G, s, .) finds from s
RECURSIVE Descendants(_, _)
Descendants(R, S) ==
    LET T == S \cup UNION {neighbors(R, n) : n \in S}
    IN  IF T = S THEN S ELSE Descendants(R, T)

has_path(R, s, t) == t \in Descendants(R, {s})

\* Dijkstra's distances from s by length: d after `rounds` more relaxations
RECURSIVE Relax(_, _, _)
Relax(R, d, rounds) ==
    IF rounds = 0 THEN d
    ELSE Relax(R,
               [x \in DOMAIN d |->
                   Min({d[x]} \cup {d[y] + StepWeight(R, y, x)
                                       : y \in {z \in DOMAIN d : x \in neighbors(R, z)}})],
               rounds - 1)

Distances(R, s) ==
    LET D   == Descendants(R, {s})
        Big == 1 + SumLengths(R)
    IN  Relax(R, [x \in D |-> IF x = s THEN 0 ELSE Big], Cardinality(D))

\* the shortest paths from s to t, given the distances d from s
RECURSIVE PathsTo(_, _, _, _)
PathsTo(R, d, s, t) ==
    IF t = s THEN {<<s>>}
    ELSE UNION { {Append(p, t) : p \in PathsTo(R, d, s, y)}
                    : y \in {z \in DOMAIN d :
                                /\ t \in neighbors(R, z)
                                /\ d[z] + StepWeight(R, z, t) = d[t]} }

\* the paths nx.shortest_path(G, s, t, weight="length") can return (t reachable)
shortest_path(R, s, t) == PathsTo(R, Distances(R, s), s, t)

\* find_nearest_node: the node nearest to the start point or, without one, to the
\* centroid of the zone; any node of the zone can be the nearest
find_nearest_node(G) == G.nodes

\* a walk that jumps to the target without the nodes in between
ExtendRoute_Dropped(r, p) == r

\* route.extend(path[1:])
ExtendRoute(r, p) == r \o Tail(p)

max_iterations == Cardinality(G_route.edges) * 3 + 100

\* the while condition of generate_simple_route
LoopCond ==
    /\ Cardinality(visited_edges) < Cardinality(G_route.edges)
    /\ iterations < max_iterations

\* neighbours of the current node over a not yet visited endpoint pair
Unvisited ==
    {n \in neighbors(G_route, current) : SortedPair(current, n) \notin visited_edges}

nodes_with_unvisited ==
    UNION { {p[1], p[2]} : p \in EdgePairs(G_route) \ visited_edges }

ReachableTargets == nodes_with_unvisited \cap Descendants(G_route, {current})

\* a bridging scan that settles for any reachable target
BestPaths_AnyTarget ==
    {tp \in UNION { {<<t, p>> : p \in shortest_path(G_route, current, t)}
                       : t \in ReachableTargets } : TRUE}

\* the (target, path) pairs the bridging scan can end with: the path to the target
\* has the fewest nodes among the paths found, the first found on ties
BestPaths ==
    LET d    == Distances(G_route, current)
        P    == [t \in ReachableTargets |-> PathsTo(G_route, d, current, t)]
        Most == [t \in ReachableTargets |->
                    CHOOSE n \in {Len(p) : p \in P[t]} :
                        \A m \in {Len(p) : p \in P[t]} : m <= n]
    IN  { tp \in UNION { {<<t, p>> : p \in P[t]} : t \in ReachableTargets } :
            \A t2 \in ReachableTargets \ {tp[1]} : Len(tp[2]) <= Most[t2] }

\* generate_turn_by_turn, first loop: one direction per step that has edge data
RECURSIVE Directions(_, _, _)
Directions(G, r, i) ==
    IF i >= Len(r) THEN <<>>
    ELSE LET ed == StepEdgeData(G, r[i], r[i + 1])
             e  == FirstEdge(ed)
         IN  (IF ed = {} THEN <<>>
              ELSE << [instruction |-> [verb |-> IF i = 1 THEN "Start on"
                                                  ELSE "Continue on",
                                        street |-> e.name],
                       distance_m |-> e.length,
                       street_name |-> e.name] >>)
             \o Directions(G, r, i + 1)

\* a merge that merges nothing
MergeDirections_Unmerged(merged, ds) == merged \o ds

\* second loop: merge consecutive same-street segments
RECURSIVE MergeDirections(_, _)
MergeDirections(merged, ds) ==
    IF ds = <<>> THEN merged
    ELSE LET d == Head(ds)
             n == Len(merged)
         IN  IF n > 0 /\ merged[n].street_name = d.street_name
             THEN MergeDirections(
                      [merged EXCEPT ![n].distance_m = @ + d.distance_m], Tail(ds))
             ELSE MergeDirections(Append(merged, d), Tail(ds))

\* third loop: number the steps and rewrite the later instructions
NumberSteps(merged) ==
    [i \in 1..Len(merged) |->
        [step |-> i,
         instruction |-> IF i > 1
                         THEN [verb |-> "Turn onto", street |-> merged[i].street_name]
                         ELSE merged[i].instruction,
         distance_m |-> merged[i].distance_m,
         street_name |-> merged[i].street_name]]

generate_turn_by_turn(G, r) == NumberSteps(MergeDirections(<<>>, Directions(G, r, 1)))

\* a step length that never consults the reverse edge
StepLength_ForwardOnly(G, a, b) ==
    LET ed == get_edge_data(G, a, b)
    IN  IF ed = {} THEN 0 ELSE FirstEdge(ed).length

\* the length generate_route_for_zone adds for the step a -> b
StepLength(G, a, b) ==
    LET ed == StepEdgeData(G, a, b)
    IN  IF ed = {} THEN 0 ELSE FirstEdge(ed).length

RECURSIVE TotalDistance(_, _)
TotalDistance(G, r) ==
    IF Len(r) < 2 THEN 0
    ELSE StepLength(G, r[1], r[2]) + TotalDistance(G, Tail(r))

\* node coordinates (zone.nodes[n]["y"], zone.nodes[n]["x"])
NodeLat(n) == 40 + n
NodeLng(n) == -(74 + n)

\* the dictionary generate_route_for_zone returns for the walk r
RouteData(G, r) ==
    [waypoints |-> [i \in 1..Len(r) |-> <<NodeLat(r[i]), NodeLng(r[i])>>],
     geometry |-> [i \in 1..Len(r) |-> <<NodeLng(r[i]), NodeLat(r[i])>>],
     total_distance_m |-> TotalDistance(G, r),
     turn_by_turn |-> generate_turn_by_turn(G, r)]

EmptyRouteData ==
    [waypoints |-> <<>>, geometry |-> <<>>, total_distance_m |-> 0,
     turn_by_turn |-> <<>>]

\* a closing step that appends nothing
ClosedRoutes_Open(rts) == {route}

\* the walks the closing step of generate_simple_route can return
ClosedRoutes(rts) ==
    IF rts /\ current # start_node /\ has_path(G_route, current, start_node)
    THEN {ExtendRoute(route, p) : p \in shortest_path(G_route, current, start_node)}
    ELSE {route}

----------------------------------------------------------------------------
(* Router specification: generate_route_for_zone on every small zone *)

\* the zones: every multigraph of at most MaxEdges edges whose nodes are
\* numbered 1..n in iteration order
ZoneGraphs ==
    { G \in UNION { {GraphOfSeq(s, [i \in 1..n |-> Scalar("residential")])
                        : s \in EdgeSeqs(Nodes \X Nodes, n, EdgeAttrs)} : n \in 0..MaxEdges } :
        G.nodes = 1..Cardinality(G.nodes) }

NoGraph == WithAdjacency(TRUE, {}, {})

RouteIdle ==
    /\ zone = [nodes |-> {}, edges |-> {}]
    /\ travel_mode = "walking"
    /\ return_to_start = FALSE
    /\ G_route = NoGraph
    /\ start_node = 0
    /\ rpc = "idle"
    /\ route = <<>>
    /\ visited_edges = {}
    /\ current = 0
    /\ iterations = 0
    /\ stop_reason = "none"
    /\ route_data = EmptyRouteData

RouteInit ==
    /\ zone \in ZoneGraphs
    /\ travel_mode \in {"walking", "driving"}
    /\ return_to_start = FALSE
    /\ G_route = NoGraph
    /\ start_node = 0
    /\ rpc = "start"
    /\ route = <<>>
    /\ visited_edges = {}
    /\ current = 0
    /\ iterations = 0
    /\ stop_reason = "none"
    /\ route_data = EmptyRouteData

\* generate_route_for_zone on a zone without edges
EmptyZone ==
    /\ rpc = "start"
    /\ zone.edges = {}
    /\ rpc' = "done"
    /\ stop_reason' = "empty"
    /\ route_data' = EmptyRouteData
    /\ UNCHANGED <<zone, travel_mode, return_to_start, G_route, start_node, route,
                   visited_edges, current, iterations>>
    /\ UNCHANGED notRoute

\* start node found, generate_simple_route entered
StartWalk ==
    /\ rpc = "start"
    /\ zone.edges # {}
    /\ \E n \in find_nearest_node(zone) :
          /\ start_node' = n
          /\ route' = <<n>>
          /\ current' = n
    /\ G_route' = RouteGraph(zone, travel_mode)
    /\ rpc' = "loop"
    /\ UNCHANGED <<zone, travel_mode, return_to_start, visited_edges, iterations,
                   stop_reason, route_data>>
    /\ UNCHANGED notRoute

\* an iteration that takes the first unvisited neighbour
VisitStep ==
    /\ rpc = "loop"
    /\ LoopCond
    /\ Unvisited # {}
    /\ \E next_node \in Unvisited :
          /\ route' = Append(route, next_node)
          /\ visited_edges' = visited_edges \cup {SortedPair(current, next_node)}
          /\ current' = next_node
    /\ iterations' = iterations + 1
    /\ UNCHANGED <<zone, travel_mode, return_to_start, G_route, start_node, rpc,
                   stop_reason, route_data>>
    /\ UNCHANGED notRoute

\* an iteration that bridges to a node with an unvisited edge
BridgeStep ==
    /\ rpc = "loop"
    /\ LoopCond
    /\ Unvisited = {}
    /\ \E tp \in BestPaths :
          /\ route' = ExtendRoute(route, tp[2])
          /\ current' = tp[1]
    /\ iterations' = iterations + 1
    /\ UNCHANGED <<zone, travel_mode, return_to_start, G_route, start_node, rpc,
                   visited_edges, stop_reason, route_data>>
    /\ UNCHANGED notRoute

\* the loop has ended for `reason`: closing step, then the rest of
\* generate_route_for_zone.  The request's return_to_start flag is read here for
\* the first time.
Finish(reason, iters) ==
    /\ iterations' = iters
    /\ \E rts \in BOOLEAN :
          /\ return_to_start' = rts
          /\ \E r \in ClosedRoutes(rts) :
                /\ route' = r
                /\ route_data' = RouteData(zone, r)
    /\ rpc' = "done"
    /\ stop_reason' = reason
    /\ UNCHANGED <<zone, travel_mode, G_route, start_node, visited_edges, current>>
    /\ UNCHANGED notRoute

\* while condition false: as many visited pairs as edges
ExitCovered ==
    /\ rpc = "loop"
    /\ Cardinality(visited_edges) >= Cardinality(G_route.edges)
    /\ Finish("covered", iterations)

\* while condition false: iteration cap
ExitCap ==
    /\ rpc = "loop"
    /\ Cardinality(visited_edges) < Cardinality(G_route.edges)
    /\ iterations >= max_iterations
    /\ Finish("cap", iterations)

\* break: no node has an unvisited edge
BreakNoneLeft ==
    /\ rpc = "loop"
    /\ LoopCond
    /\ Unvisited = {}
    /\ nodes_with_unvisited = {}
    /\ Finish("none_left", iterations + 1)

\* break: no node with an unvisited edge can be reached
BreakNoTarget ==
    /\ rpc = "loop"
    /\ LoopCond
    /\ Unvisited = {}
    /\ nodes_with_unvisited # {}
    /\ ReachableTargets = {}
    /\ Finish("no_target", iterations + 1)

RouteNext ==
    \/ EmptyZone
    \/ StartWalk
    \/ VisitStep
    \/ BridgeStep
    \/ ExitCovered
    \/ ExitCap
    \/ BreakNoneLeft
    \/ BreakNoTarget

----------------------------------------------------------------------------
(* export.py: generate_google_maps_url *)

max_wp == 23

\* waypoints[::step], from the i-th element on
RECURSIVE Stride(_, _, _)
Stride(w, step, i) ==
    IF i > Len(w) THEN <<>> ELSE <<w[i]>> \o Stride(w, step, i + step)

\* s[:n]
Prefix(s, n) == SubSeq(s, 1, Min({n, Len(s)}))

\* sampled: waypoints[::step][:max_wp] when there are more than max_wp + 2
\* waypoints, the list itself otherwise
Sampled(w) ==
    IF Len(w) > max_wp + 2
    THEN Prefix(Stride(w, Len(w) \div max_wp, 1), max_wp)
    ELSE w

NoUrl == [base |-> "", origin |-> <<>>, destination |-> <<>>,
          waypoints |-> <<>>, travelmode |-> ""]

\* the URL as its parts: "" when there are fewer than two waypoints, else the
\* base with origin, destination, the "|"-joined waypoints in between (absent when
\* there are none) and the travel mode
generate_google_maps_url(w, mode) ==
    IF Len(w) < 2 THEN NoUrl
    ELSE LET sampled == Sampled(w)
         IN  [base |-> "https://www.google.com/maps/dir/?api=1",
              origin |-> sampled[1],
              destination |-> sampled[Len(sampled)],
              waypoints |-> IF Len(sampled) > 2
                            THEN SubSeq(sampled, 2, Len(sampled) - 1)
                            ELSE <<>>,
              travelmode |-> IF mode = "walking" THEN "walking" ELSE "driving"]

\* the number of points a URL encodes
EncodedPoints(url) == IF url.base = "" THEN 0 ELSE 2 + Len(url.waypoints)

----------------------------------------------------------------------------
(* URL specification: generate_google_maps_url on waypoint lists *)

\* the n waypoints of a walk over distinct nodes, the last one back at the first
\* when the walk is closed
WaypointList(n, closed) ==
    [i \in 1..n |-> IF closed /\ i = n /\ n > 1 THEN <<NodeLat(1), NodeLng(1)>>
                    ELSE <<NodeLat(i), NodeLng(i)>>]

UrlIdle ==
    /\ waypoints = <<>>
    /\ url_mode = "walking"
    /\ upc = "idle"
    /\ gmaps_url = NoUrl

UrlInit ==
    /\ \E n \in 0..MaxWaypoints, closed \in BOOLEAN : waypoints = WaypointList(n, closed)
    /\ url_mode \in {"walking", "driving"}
    /\ upc = "input"
    /\ gmaps_url = NoUrl

\* fewer than two waypoints: the empty string
EncodeNothing ==
    /\ upc = "input"
    /\ Len(waypoints) < 2
    /\ gmaps_url' = generate_google_maps_url(waypoints, url_mode)
    /\ upc' = "done"
    /\ UNCHANGED <<waypoints, url_mode>>
    /\ UNCHANGED notUrl

EncodeUrl ==
    /\ upc = "input"
    /\ Len(waypoints) >= 2
    /\ gmaps_url' = generate_google_maps_url(waypoints, url_mode)
    /\ upc' = "done"
    /\ UNCHANGED <<waypoints, url_mode>>
    /\ UNCHANGED notUrl

UrlNext ==
    \/ EncodeNothing
    \/ EncodeUrl

----------------------------------------------------------------------------
(* main.py: generate_routes and the job store *)

RECURSIVE SumOver(_, _)
SumOver(S, f) ==
    IF S = {} THEN 0
    ELSE LET x == CHOOSE y \in S : TRUE IN f[x] + SumOver(S \ {x}, f)

\* get_zone_stats(zone)["estimated_addresses"]
ZoneAddresses(z, addr) == SumOver(z.edges, addr)

\* the loop that fills flyers_per_route: the proportional share, or the integer
\* split when no zone has an address
FlyerShares(total_flyers, zone_addresses) ==
    LET total_zone_addresses == SumSeq(zone_addresses)
    IN  [i \in 1..Len(zone_addresses) |->
            IF total_zone_addresses > 0
            THEN TruncDiv(total_flyers * zone_addresses[i], total_zone_addresses)
            ELSE FloorDiv(total_flyers, Len(zone_addresses))]

\* an allocation that leaves the shares as they were computed
FixRounding_Skipped(fl, total_flyers) == fl

\* diff = total_flyers - sum(flyers_per_route); flyers_per_route[0] += diff
FixRounding(fl, total_flyers) ==
    LET diff == total_flyers - SumSeq(fl)
    IN  IF diff # 0 THEN [fl EXCEPT ![1] = fl[1] + diff] ELSE fl

\* jobs[job_id] = result
StoreJob(js, job_id, result) ==
    [j \in DOMAIN js \cup {job_id} |-> IF j = job_id THEN result ELSE js[j]]

\* the values of job_{uuid4().hex[:8]} in the model
JobIds == {"job_0000000a", "job_0000000b"}

\* the provider's answers in the model: a motorway only, one street, two
\* streets, and two streets joined by a motorway
Street == [name |-> "Elm St", length |-> 1]

GenRawGraphs ==
    { GraphOfSeq(<< <<<<1, 2>>, Street>> >>, << Scalar("motorway") >>),
      GraphOfSeq(<< <<<<1, 2>>, Street>> >>, << Scalar("residential") >>),
      GraphOfSeq(<< <<<<1, 2>>, Street>>, <<<<2, 3>>, Street>> >>,
                 << Scalar("residential"), Scalar("residential") >>),
      GraphOfSeq(<< <<<<1, 2>>, Street>>, <<<<2, 3>>, Street>>, <<<<3, 4>>, Street>> >>,
                 << Scalar("residential"), Scalar("motorway"), Scalar("residential") >>) }

\* GenerateRequest, with the fields the handler branches on.  area: its type
\* and the number of polygon points; start_point: absent, with both keys, or
\* without "lat"
DefaultRequest ==
    [num_routes |-> 1, total_flyers |-> MaxFlyers,
     area |-> [type |-> "circle", points |-> 0],
     travel_mode |-> "walking", balance_priority |-> "density",
     start_point |-> "none"]

RequestSpace ==
    [num_routes : {0, 1, 2, 21},
     total_flyers : {-MaxFlyers, MaxFlyers},
     area : {[type |-> "circle", points |-> 0], [type |-> "polygon", points |-> 2],
             [type |-> "polygon", points |-> 3], [type |-> "square", points |-> 0]},
     travel_mode : {"walking", "driving", "cycling"},
     balance_priority : {"density", "area", "speed"},
     start_point : {"none", "lat_lng", "lng_only"}]

Fields == {"num_routes", "total_flyers", "area", "travel_mode", "balance_priority",
           "start_point"}

\* the requests of the model: the default request, those that differ from it in
\* one field, and a two-route request for a negative number of flyers
Requests ==
    { r \in RequestSpace :
        Cardinality({f \in Fields : r[f] # DefaultRequest[f]}) <= 1 }
    \cup {[DefaultRequest EXCEPT !.num_routes = 2, !.total_flyers = -MaxFlyers]}

NoRequest ==
    [num_routes |-> 0, total_flyers |-> 0, area |-> [type |-> "", points |-> 0],
     travel_mode |-> "", balance_priority |-> "", start_point |-> "none"]

GenIdle ==
    /\ jobs = <<>>
    /\ request = NoRequest
    /\ gpc = "idle"
    /\ stages = <<>>
    /\ G_pruned = EmptyGraph
    /\ estimated_addresses = <<>>
    /\ job_zones = <<>>
    /\ flyers_per_route = <<>>
    /\ routes = <<>>
    /\ status = 0
    /\ served = 0

\* the state after construction: an empty job store, no request yet
GenInit == GenIdle

\* POST /api/generate arrives
Receive ==
    /\ gpc \in {"idle", "responded"}
    /\ served < MaxRequests
    /\ request' \in Requests
    /\ served' = served + 1
    /\ gpc' = "validate"
    /\ stages' = <<>>
    /\ G_pruned' = EmptyGraph
    /\ estimated_addresses' = <<>>
    /\ job_zones' = <<>>
    /\ flyers_per_route' = <<>>
    /\ routes' = <<>>
    /\ status' = 0
    /\ UNCHANGED jobs
    /\ UNCHANGED notGen

\* an error path that empties the job store
Respond_Clearing(code) ==
    /\ status' = code
    /\ gpc' = "responded"
    /\ jobs' = <<>>
    /\ UNCHANGED <<request, stages, G_pruned, estimated_addresses, job_zones,
                   flyers_per_route, routes, served>>
    /\ UNCHANGED notGen

\* raise HTTPException(status_code=code): the response leaves the handler
Respond(code) ==
    /\ status' = code
    /\ gpc' = "responded"
    /\ UNCHANGED <<jobs, request, stages, G_pruned, estimated_addresses, job_zones,
                   flyers_per_route, routes, served>>
    /\ UNCHANGED notGen

\* a range check without the upper limit
NumRoutesOutOfRange_NoUpper(n) == n < 1

\* request.num_routes < 1 or request.num_routes > 20
NumRoutesOutOfRange(n) == n < 1 \/ n > 20

RejectNumRoutes ==
    /\ gpc = "validate"
    /\ NumRoutesOutOfRange(request.num_routes)
    /\ Respond(400)

NumRoutesValid == gpc = "validate" /\ ~NumRoutesOutOfRange(request.num_routes)

\* polygon with len(points) < 3
RejectPolygon ==
    /\ NumRoutesValid
    /\ request.area.type = "polygon"
    /\ request.area.points < 3
    /\ Respond(400)

\* area.type is neither circle nor polygon
RejectAreaType ==
    /\ NumRoutesValid
    /\ request.area.type \notin {"circle", "polygon"}
    /\ Respond(400)

\* Step 1: create_circle_polygon / create_polygon_from_points
CreateGeometry ==
    /\ NumRoutesValid
    /\ \/ request.area.type = "circle"
       \/ request.area.type = "polygon" /\ request.area.points >= 3
    /\ gpc' = "geometry"
    /\ stages' = Append(stages, "geometry")
    /\ UNCHANGED <<jobs, request, G_pruned, estimated_addresses, job_zones,
                   flyers_per_route, routes, status, served>>
    /\ UNCHANGED notGen

\* Step 2: G = filter_residential_roads(fetch_road_network(polygon, travel_mode))
FetchNetwork ==
    /\ gpc = "geometry"
    /\ \E raw \in GenRawGraphs : G_pruned' = filter_residential_roads(raw)
    /\ gpc' = "ingested"
    /\ stages' = Append(stages, "ingest")
    /\ UNCHANGED <<jobs, request, estimated_addresses, job_zones, flyers_per_route,
                   routes, status, served>>
    /\ UNCHANGED notGen

\* the provider call raises: except Exception -> HTTPException(500)
FetchFails ==
    /\ gpc = "geometry"
    /\ Respond(500)

\* len(G.edges) == 0
RejectNoRoads ==
    /\ gpc = "ingested"
    /\ G_pruned.edges = {}
    /\ Respond(400)

\* Step 3: assign_buildings_to_edges, then estimate_from_road_length when no
\* address was found: every edge gets a count >= 0
EstimateDensity ==
    /\ gpc = "ingested"
    /\ G_pruned.edges # {}
    /\ estimated_addresses' \in [G_pruned.edges -> 0..MaxAddresses]
    /\ gpc' = "density"
    /\ stages' = Append(stages, "density")
    /\ UNCHANGED <<jobs, request, G_pruned, job_zones, flyers_per_route, routes,
                   status, served>>
    /\ UNCHANGED notGen

\* Step 4: zones = partition_graph_into_zones(G, actual_zones, balance_priority)
PartitionZones ==
    /\ gpc = "density"
    /\ LET actual_zones == Min({request.num_routes, Cardinality(G_pruned.edges)})
       IN  \E labels \in ClusterLabellings(G_pruned, actual_zones) :
              job_zones' \in partition_graph_into_zones(G_pruned, actual_zones, labels)
    /\ gpc' = "partitioned"
    /\ stages' = Append(stages, "partition")
    /\ UNCHANGED <<jobs, request, G_pruned, estimated_addresses, flyers_per_route,
                   routes, status, served>>
    /\ UNCHANGED notGen

\* Step 5: flyer allocation
AllocateFlyers ==
    /\ gpc = "partitioned"
    /\ LET zone_addresses ==
               [i \in 1..Len(job_zones) |-> ZoneAddresses(job_zones[i], estimated_addresses)]
       IN  flyers_per_route' =
               FixRounding(FlyerShares(request.total_flyers, zone_addresses),
                           request.total_flyers)
    /\ gpc' = "allocated"
    /\ stages' = Append(stages, "allocation")
    /\ UNCHANGED <<jobs, request, G_pruned, estimated_addresses, job_zones, routes,
                   status, served>>
    /\ UNCHANGED notGen

\* start_pt = (request.start_point["lat"], request.start_point["lng"]) raises
\* KeyError: except Exception -> HTTPException(500)
RoutingFails ==
    /\ gpc = "allocated"
    /\ request.start_point = "lng_only"
    /\ Respond(500)

\* Step 6: one route per zone, with its number and its share of the flyers
GenerateRoutes ==
    /\ gpc = "allocated"
    /\ request.start_point # "lng_only"
    /\ routes' = [i \in 1..Len(job_zones) |->
                    [route_id |-> i, zone_id |-> i,
                     assigned_flyers |-> flyers_per_route[i]]]
    /\ gpc' = "routed"
    /\ stages' = Append(stages, "routing")
    /\ UNCHANGED <<jobs, request, G_pruned, estimated_addresses, job_zones,
                   flyers_per_route, status, served>>
    /\ UNCHANGED notGen

\* job_id = job_<8 hex digits>; jobs[job_id] = result; return result
StoreAndReturn ==
    /\ gpc = "routed"
    /\ \E job_id \in JobIds :
          jobs' = StoreJob(jobs, job_id, [job_id |-> job_id, routes |-> routes])
    /\ status' = 200
    /\ gpc' = "responded"
    /\ stages' = Append(stages, "store")
    /\ UNCHANGED <<request, G_pruned, estimated_addresses, job_zones, flyers_per_route,
                   routes, served>>
    /\ UNCHANGED notGen

GenNext ==
    \/ Receive
    \/ RejectNumRoutes
    \/ RejectPolygon
    \/ RejectAreaType
    \/ CreateGeometry
    \/ FetchNetwork
    \/ FetchFails
    \/ RejectNoRoads
    \/ EstimateDensity
    \/ PartitionZones
    \/ AllocateFlyers
    \/ RoutingFails
    \/ GenerateRoutes
    \/ StoreAndReturn

----------------------------------------------------------------------------
(* area.py: create_circle_polygon, and the circle branch of generate_routes *)

NoPolygon == [kind |-> "none", ring |-> <<>>]

\* sin and cos of the angle 2 * pi * i / num_points at the quarter turns
\* i = 0, num_points / 4, num_points / 2, 3 * num_points / 4
QuarterSin == <<0, 1, 0, -1>>
QuarterCos == <<1, 0, -1, 0>>

\* create_circle_polygon(center_lat, center_lng, radius_m): the ring at its
\* quarter turns, every point (lng, lat) as an offset in metres from the origin
\* of the coordinates (lat_deg_per_m and lng_deg_per_m scale the offsets to
\* degrees).  The function has no branch and raises nothing of its own.
create_circle_polygon(lat, lng, r) ==
    [kind |-> "Polygon",
     ring |-> [i \in 1..4 |-> <<lng + r * QuarterCos[i], lat + r * QuarterSin[i]>>]]

\* the circles of the model: latitudes on both sides of the poles' +-90,
\* radii on both sides of 0
Latitudes == {-91, -90, 0, 45, 90, 91}
Longitudes == {-74, 0}
Radii == {-100, 0, 1, 500}

AreaIdle ==
    /\ center_lat = 0
    /\ center_lng = 0
    /\ radius_m = 0
    /\ apc = "idle"
    /\ polygon = NoPolygon

AreaInit ==
    /\ center_lat \in Latitudes
    /\ center_lng \in Longitudes
    /\ radius_m \in Radii
    /\ apc = "request"
    /\ polygon = NoPolygon

\* polygon = create_circle_polygon(center["lat"], center["lng"], radius)
CircleGeometry ==
    /\ apc = "request"
    /\ polygon' = create_circle_polygon(center_lat, center_lng, radius_m)
    /\ apc' = "geometry"
    /\ UNCHANGED <<center_lat, center_lng, radius_m>>
    /\ UNCHANGED notArea

\* Step 2: fetch_road_network(polygon, travel_mode) is called
CallProvider ==
    /\ apc = "geometry"
    /\ apc' = "provider"
    /\ UNCHANGED <<center_lat, center_lng, radius_m, polygon>>
    /\ UNCHANGED notArea

AreaNext ==
    \/ CircleGeometry
    \/ CallProvider

----------------------------------------------------------------------------
(* main.py: the export endpoints, served next to /api/generate *)

NoExport == [format |-> "", job_id |-> "", has_route_id |-> FALSE, route_id |-> 0]

NoResponse == [status |-> 0, detail |-> "", routes |-> <<>>]

\* the export requests of the model: the three formats, the job ids of the
\* model and one that is never issued, no route_id or one in 0..3 (GPX only)
ExportRequests ==
    [format : {"gpx"}, job_id : JobIds \cup {"job_ffffffff"},
     has_route_id : {TRUE}, route_id : 0..3]
    \cup [format : {"gpx", "kml", "geojson"}, job_id : JobIds \cup {"job_ffffffff"},
          has_route_id : {FALSE}, route_id : {0}]

\* a lookup that settles for the first route
FindRoute_AnyRoute(rts, route_id) == IF rts = <<>> THEN <<>> ELSE <<rts[1]>>

\* next((r for r in job_data["routes"] if r["route_id"] == route_id), None):
\* the first route with the id, as a list of at most one route
FindRoute(rts, route_id) ==
    LET hits == {i \in 1..Len(rts) : rts[i].route_id = route_id}
    IN  IF hits = {} THEN <<>> ELSE <<rts[Min(hits)]>>

\* export_gpx(job_id, route_id): 404 for an unknown job or route, else the
\* tracks of the one route or of all routes
export_gpx(js, q) ==
    IF q.job_id \notin DOMAIN js
    THEN [status |-> 404, detail |-> "Job not found", routes |-> <<>>]
    ELSE IF q.has_route_id
         THEN IF FindRoute(js[q.job_id].routes, q.route_id) = <<>>
              THEN [status |-> 404, detail |-> "Route not found", routes |-> <<>>]
              ELSE [status |-> 200, detail |-> "",
                    routes |-> FindRoute(js[q.job_id].routes, q.route_id)]
         ELSE [status |-> 200, detail |-> "", routes |-> js[q.job_id].routes]

\* export_kml(job_id) and export_geojson(job_id): 404 for an unknown job, else
\* all routes of the job
export_all(js, q) ==
    IF q.job_id \notin DOMAIN js
    THEN [status |-> 404, detail |-> "Job not found", routes |-> <<>>]
    ELSE [status |-> 200, detail |-> "", routes |-> js[q.job_id].routes]

ExportIdle ==
    /\ export_request = NoExport
    /\ export_response = NoResponse

ExportInit == ExportIdle

\* the handler has answered: its frame is gone, the server waits
ReturnToIdle ==
    /\ gpc = "responded"
    /\ gpc' = "idle"
    /\ request' = NoRequest
    /\ stages' = <<>>
    /\ G_pruned' = EmptyGraph
    /\ estimated_addresses' = <<>>
    /\ job_zones' = <<>>
    /\ flyers_per_route' = <<>>
    /\ routes' = <<>>
    /\ status' = 0
    /\ UNCHANGED <<jobs, served>>
    /\ UNCHANGED notGen

\* An export is answered between two generate requests.  The exports of the
\* model come after the last generate request of the run: a request that fails
\* leaves the store as it is, so the stores of every shorter run are among them.
ExportReady == gpc = "idle" /\ served = MaxRequests

\* GET /api/export/{job_id}/gpx
ExportGpx ==
    /\ ExportReady
    /\ \E q \in ExportRequests :
          /\ q.format = "gpx"
          /\ export_request' = q
          /\ export_response' = export_gpx(jobs, q)
    /\ UNCHANGED notExport

\* GET /api/export/{job_id}/kml
ExportKml ==
    /\ ExportReady
    /\ \E q \in ExportRequests :
          /\ q.format = "kml"
          /\ export_request' = q
          /\ export_response' = export_all(jobs, q)
    /\ UNCHANGED notExport

\* GET /api/export/{job_id}/geojson
ExportGeojson ==
    /\ ExportReady
    /\ \E q \in ExportRequests :
          /\ q.format = "geojson"
          /\ export_request' = q
          /\ export_response' = export_all(jobs, q)
    /\ UNCHANGED notExport

\* the server: /api/generate and the export endpoints
ExportNext ==
    \/ Receive
    \/ RejectNumRoutes
    \/ RejectPolygon
    \/ RejectAreaType
    \/ CreateGeometry
    \/ FetchNetwork
    \/ FetchFails
    \/ RejectNoRoads
    \/ EstimateDensity
    \/ PartitionZones
    \/ AllocateFlyers
    \/ RoutingFails
    \/ GenerateRoutes
    \/ StoreAndReturn
    \/ ReturnToIdle
    \/ ExportGpx
    \/ ExportKml
    \/ ExportGeojson

----------------------------------------------------------------------------
(* density.py: buildings assigned to edges, and the road-length fallback.  *)
(* A distance is kept in metres: the planar-degree distance times 111320,  *)
(* so the acceptance test  min_dist < max_distance_m / 111320  reads       *)
(* dist < max_distance_m.                                                  *)

MaxBuildings == 2

max_distance_m == 50

Max(a, b) == IF a >= b THEN a ELSE b

\* estimate_units_per_building(building)
estimate_units_per_building(b) ==
    IF b.type = "apartments" THEN Max(4 * b.levels, 4) ELSE 1

\* density_map.get(highway_type, 10)
density_map(highway_type) ==
    CASE highway_type = "residential" -> 20
      [] highway_type = "living_street" -> 30
      [] highway_type = "service" -> 5
      [] highway_type = "unclassified" -> 15
      [] highway_type = "tertiary" -> 10
      [] highway_type = "secondary" -> 5
      [] OTHER -> 10

\* estimate_from_road_length(G): max(int((length / 100) * density), 0) per edge
estimate_from_road_length(G) ==
    [i \in 1..Len(G) |->
        Max(TruncDiv(G[i].length * density_map(HighwayClass(G[i].highway)), 100), 0)]

\* the loop over edge_lines: the first edge at the least distance
NearestEdge(b) ==
    Min({i \in 1..Len(b.dist) : \A j \in 1..Len(b.dist) : b.dist[i] <= b.dist[j]})

\* an acceptance test that lets the threshold itself through
Accepted_Inclusive(b) == b.dist[NearestEdge(b)] <= max_distance_m

\* nearest_edge and min_dist < max_distance_m / 111320
Accepted(b) == b.dist[NearestEdge(b)] < max_distance_m

\* the loop over the buildings, from building k on
RECURSIVE AssignFrom(_, _, _)
AssignFrom(acc, bs, k) ==
    IF k > Len(bs) THEN acc
    ELSE IF Accepted(bs[k])
         THEN AssignFrom([acc EXCEPT ![NearestEdge(bs[k])] =
                              @ + estimate_units_per_building(bs[k])], bs, k + 1)
         ELSE AssignFrom(acc, bs, k + 1)

\* assign_buildings_to_edges(G, buildings)
assign_buildings_to_edges(G, bs) ==
    IF bs = <<>> THEN estimate_from_road_length(G)
    ELSE AssignFrom([i \in 1..Len(G) |-> 0], bs, 1)

\* get_total_estimated_addresses(G)
get_total_estimated_addresses(addr) == SumSeq(addr)

\* pruned graphs of one and two edges: lengths in metres, scalar and list tags
DensityGraphs ==
    { <<[length |-> 4, highway |-> Scalar("residential")]>>,
      <<[length |-> 100, highway |-> Scalar("residential")]>>,
      <<[length |-> 250, highway |-> Scalar("residential")],
        [length |-> 50, highway |-> Scalar("service")]>>,
      <<[length |-> 100, highway |-> [list |-> TRUE, items |-> <<"footway", "residential">>]],
        [length |-> 4, highway |-> Scalar("living_street")]>>,
      <<[length |-> 4, highway |-> Scalar("residential")],
        [length |-> 19, highway |-> Scalar("service")]>> }

\* building kinds: type and levels as fetch_buildings parses them
BuildingKinds ==
    { [type |-> "apartments", levels |-> 3],
      [type |-> "apartments", levels |-> 0],
      [type |-> "house", levels |-> 1] }

\* centroid distances to an edge, in metres, on both sides of the threshold
Distances_m == {10, max_distance_m - 1, max_distance_m}

\* the buildings a graph of n edges can come with
BuildingsOf(n) ==
    {[type |-> k.type, levels |-> k.levels, dist |-> d] :
        k \in BuildingKinds, d \in [1..n -> Distances_m]}

BuildingLists(n) == UNION {[1..m -> BuildingsOf(n)] : m \in 0..MaxBuildings}

DensityIdle ==
    /\ density_G = <<>>
    /\ buildings = <<>>
    /\ edge_addresses = <<>>
    /\ total_addresses = 0
    /\ dpc = "idle"

\* the density stage is entered with a pruned graph that has edges
DensityInit ==
    /\ density_G \in DensityGraphs
    /\ buildings \in BuildingLists(Len(density_G))
    /\ edge_addresses = <<>>
    /\ total_addresses = 0
    /\ dpc = "fetched"

\* G = assign_buildings_to_edges(G, buildings); total_addresses = get_total...(G)
AssignBuildings ==
    /\ dpc = "fetched"
    /\ edge_addresses' = assign_buildings_to_edges(density_G, buildings)
    /\ total_addresses' = get_total_estimated_addresses(edge_addresses')
    /\ dpc' = "assigned"
    /\ UNCHANGED <<density_G, buildings>>
    /\ UNCHANGED notDensity

\* if total_addresses == 0: G = estimate_from_road_length(G); total again
FallBack ==
    /\ dpc = "assigned"
    /\ total_addresses = 0
    /\ edge_addresses' = estimate_from_road_length(density_G)
    /\ total_addresses' = get_total_estimated_addresses(edge_addresses')
    /\ dpc' = "estimated"
    /\ UNCHANGED <<density_G, buildings>>
    /\ UNCHANGED notDensity

\* total_addresses != 0: the stage ends with the assignment
KeepAssignment ==
    /\ dpc = "assigned"
    /\ total_addresses # 0
    /\ dpc' = "estimated"
    /\ UNCHANGED <<density_G, buildings, edge_addresses, total_addresses>>
    /\ UNCHANGED notDensity

DensityNext ==
    \/ AssignBuildings
    \/ FallBack
    \/ KeepAssignment

----------------------------------------------------------------------------
(* network.py: ingest.  An attribute the provider may leave out is kept as *)
(* a set: empty when the edge lacks it, else holding its value.            *)

MaxIngestEdges == 2

\* the loop of fetch_road_network: name and highway defaults
fetch_road_network(P) ==
    [nodes |-> P.nodes,
     edges |-> {[u |-> e.u, v |-> e.v, key |-> e.key, length |-> e.length,
                 name |-> IF e.name = {} THEN "Unnamed Road"
                          ELSE CHOOSE x \in e.name : TRUE,
                 highway |-> IF e.highway = {} THEN Scalar("unclassified")
                             ELSE CHOOSE x \in e.highway : TRUE] : e \in P.edges}]

\* the attributes of a provider edge: name and highway present or not, scalar
\* and list tags, kept and dropped classes
ProviderAttrs ==
    { [name |-> {}, length |-> 1, highway |-> {}],
      [name |-> {"Elm St"}, length |-> 1, highway |-> {Scalar("residential")}],
      [name |-> {"Elm St"}, length |-> 1, highway |-> {Scalar("motorway")}],
      [name |-> {}, length |-> 1, highway |-> {Scalar("footway")}],
      [name |-> {"Elm St"}, length |-> 1,
       highway |-> {[list |-> TRUE, items |-> <<"residential", "motorway">>]}],
      [name |-> {}, length |-> 1,
       highway |-> {[list |-> TRUE, items |-> <<"motorway", "residential">>]}] }

\* the node pairs of the provider's edges: every graph over them is connected
ProviderPairs == {<<1, 2>>, <<2, 1>>, <<2, 3>>}

\* the graph whose edges the provider lists in the order of s
ProviderGraphOfSeq(s) ==
    LET E == { [u |-> s[i][1][1], v |-> s[i][1][2], key |-> EdgeKey(s, i),
                name |-> s[i][2].name, length |-> s[i][2].length,
                highway |-> s[i][2].highway] : i \in DOMAIN s }
    IN  [nodes |-> {e.u : e \in E} \cup {e.v : e \in E}, edges |-> E]

\* the provider graphs of at most k edges
ProviderGraphs(k) ==
    UNION { {ProviderGraphOfSeq(s) : s \in [1..n -> ProviderPairs \X ProviderAttrs]}
               : n \in 1..k }

IngestIdle ==
    /\ provider_G = EmptyGraph
    /\ fetched_G = EmptyGraph
    /\ ingested_G = EmptyGraph
    /\ ipc = "idle"

IngestInit ==
    /\ provider_G \in ProviderGraphs(MaxIngestEdges)
    /\ fetched_G = EmptyGraph
    /\ ingested_G = EmptyGraph
    /\ ipc = "provided"

\* G = fetch_road_network(polygon, travel_mode)
FetchRoadNetwork ==
    /\ ipc = "provided"
    /\ fetched_G' = fetch_road_network(provider_G)
    /\ ipc' = "fetched"
    /\ UNCHANGED <<provider_G, ingested_G>>
    /\ UNCHANGED notIngest

\* G_pruned = filter_residential_roads(G): works on G.copy()
FilterRoads ==
    /\ ipc = "fetched"
    /\ ingested_G' = filter_residential_roads(fetched_G)
    /\ ipc' = "filtered"
    /\ UNCHANGED <<provider_G, fetched_G>>
    /\ UNCHANGED notIngest

IngestNext ==
    \/ FetchRoadNetwork
    \/ FilterRoads

----------------------------------------------------------------------------
(* The specifications *)

InitRoute == RouteInit /\ PartIdle /\ UrlIdle /\ GenIdle /\ AreaIdle
    /\ ExportIdle /\ DensityIdle /\ IngestIdle

SpecRoute == InitRoute /\ [][RouteNext]_vars

InitPartition == PartInit /\ RouteIdle /\ UrlIdle /\ GenIdle /\ AreaIdle
    /\ ExportIdle /\ DensityIdle /\ IngestIdle

SpecPartition == InitPartition /\ [][PartNext]_vars

InitUrl == UrlInit /\ RouteIdle /\ PartIdle /\ GenIdle /\ AreaIdle
    /\ ExportIdle /\ DensityIdle /\ IngestIdle

SpecUrl == InitUrl /\ [][UrlNext]_vars

Init == GenInit /\ RouteIdle /\ PartIdle /\ UrlIdle /\ AreaIdle /\ ExportIdle
    /\ DensityIdle /\ IngestIdle

Next == GenNext

Spec == Init /\ [][Next]_vars

InitArea == AreaInit /\ RouteIdle /\ PartIdle /\ UrlIdle /\ GenIdle
    /\ ExportIdle /\ DensityIdle /\ IngestIdle

SpecArea == InitArea /\ [][AreaNext]_vars

InitExport == ExportInit /\ RouteIdle /\ PartIdle /\ UrlIdle /\ GenIdle
    /\ AreaIdle /\ DensityIdle /\ IngestIdle

SpecExport == InitExport /\ [][ExportNext]_vars

InitDensity == DensityInit /\ RouteIdle /\ PartIdle /\ UrlIdle /\ GenIdle
    /\ AreaIdle /\ ExportIdle /\ IngestIdle

SpecDensity == InitDensity /\ [][DensityNext]_vars

InitIngest == IngestInit /\ RouteIdle /\ PartIdle /\ UrlIdle /\ GenIdle
    /\ AreaIdle /\ ExportIdle /\ DensityIdle

SpecIngest == InitIngest /\ [][IngestNext]_vars

----------------------------------------------------------------------------
(* Router properties *)

\* the walk r has a step over the endpoint pair
Traversed(r, pair) == \E i \in 1..(Len(r) - 1) : SortedPair(r[i], r[i + 1]) = pair

WalkCoversZone == \A e \in zone.edges : Traversed(route, SortedPair(e.u, e.v))

\* the loop ran more iterations than it visited pairs (the iteration of a break
\* apart): some iteration was a bridging traversal
HasBridging ==
    iterations - (IF stop_reason \in {"none_left", "no_target"} THEN 1 ELSE 0)
        > Cardinality(visited_edges)

\* some step of the walk reads the reverse edge
UsesReverseEdge ==
    \E i \in 1..(Len(route) - 1) :
        /\ get_edge_data(zone, route[i], route[i + 1]) = {}
        /\ get_edge_data(zone, route[i + 1], route[i]) # {}

\* C2 as stated: in walking and in driving mode alike, the walk of a weakly
\* connected zone traverses every edge (every unordered endpoint pair) at least
\* once unless the loop stopped at the iteration cap.
C2_CoverUnlessCap ==
    (rpc = "done" /\ zone.edges # {} /\ is_weakly_connected(zone)
        /\ stop_reason # "cap")
    => WalkCoversZone

\* C2 amended: the walk of a weakly connected zone traverses every edge at least
\* once unless the loop stopped at the iteration cap or, in driving mode, because
\* no node with an unvisited edge could be reached from the current node.
C2_CoverUnlessCapOrStuck ==
    (rpc = "done" /\ zone.edges # {} /\ is_weakly_connected(zone)
        /\ stop_reason # "cap"
        /\ ~(travel_mode # "walking" /\ stop_reason = "no_target"))
    => WalkCoversZone

\* a driving walk that covered a connected zone of two streets
C2_Witness ==
    /\ rpc = "done"
    /\ travel_mode = "driving"
    /\ is_weakly_connected(zone)
    /\ Cardinality(EdgePairs(G_route)) >= 2
    /\ stop_reason = "covered"
    /\ WalkCoversZone

\* C6: in the turn-by-turn list no two adjacent steps share a street name, the
\* steps are numbered 1..N, the first instruction is "Start on <street>" and every
\* later one "Turn onto <street>".
C6_TurnByTurnShape ==
    rpc = "done" =>
        LET t == route_data.turn_by_turn
        IN  /\ \A i \in 1..(Len(t) - 1) : t[i].street_name # t[i + 1].street_name
            /\ \A i \in 1..Len(t) : t[i].step = i
            /\ Len(t) > 0 =>
                  t[1].instruction = [verb |-> "Start on", street |-> t[1].street_name]
            /\ \A i \in 2..Len(t) :
                  t[i].instruction = [verb |-> "Turn onto", street |-> t[i].street_name]

\* a walk whose steps were merged into at least two turn steps
C6_Witness ==
    /\ rpc = "done"
    /\ Len(route_data.turn_by_turn) >= 2
    /\ Len(route) - 1 > Len(route_data.turn_by_turn)

\* C7: the distances of the turn-by-turn steps add up to the route's
\* total_distance_m.
C7_DistancesAddUp ==
    rpc = "done" =>
        SumSeq([i \in 1..Len(route_data.turn_by_turn) |->
                    route_data.turn_by_turn[i].distance_m])
            = route_data.total_distance_m

\* a walk with a bridging traversal and a step against the edge's direction
C7_Witness ==
    /\ rpc = "done"
    /\ HasBridging
    /\ UsesReverseEdge
    /\ Len(route_data.turn_by_turn) >= 2
    /\ route_data.total_distance_m > 0

----------------------------------------------------------------------------
(* Partitioner properties *)

\* C3: every zone the partitioner returns is weakly connected, for every zone
\* count K >= 1 (K = 1 included) and every graph the ingest filter can produce.
C3_ZonesConnected ==
    ppc = "partitioned" => \A i \in 1..Len(zones) : is_weakly_connected(zones[i])

\* C4: whatever the labelling, every edge (u, v, key) of G is in at most one
\* returned zone, and the zones of a graph with an edge hold at least one edge.
C4_EdgesInAtMostOneZone ==
    ppc = "partitioned" =>
        /\ \A i, j \in 1..Len(zones) : i # j => zones[i].edges \cap zones[j].edges = {}
        /\ \A i \in 1..Len(zones) : zones[i].edges \subseteq graph.edges
        /\ graph.edges # {} => \E i \in 1..Len(zones) : zones[i].edges # {}

\* two zones, and an edge of G that fell out of its zone's largest component
C4_Witness ==
    /\ ppc = "partitioned"
    /\ Len(zones) = 2
    /\ \E e \in graph.edges : \A i \in 1..Len(zones) : e \notin zones[i].edges

----------------------------------------------------------------------------
(* URL encoder properties *)

\* C5: for a waypoint list of any length >= 2 the URL encodes at most 23 points
\* in total (origin, intermediate waypoints and destination together).
C5_AtMost23Points ==
    (upc = "done" /\ Len(waypoints) >= 2) => EncodedPoints(gmaps_url) <= 23

----------------------------------------------------------------------------
(* /api/generate properties *)

AssignedFlyers == [i \in 1..Len(routes) |-> routes[i].assigned_flyers]

ZoneAddressList ==
    [i \in 1..Len(job_zones) |-> ZoneAddresses(job_zones[i], estimated_addresses)]

AllStages == <<"geometry", "ingest", "density", "partition", "allocation", "routing",
               "store">>

\* C1: for every completed request the assigned_flyers of the routes add up to
\* total_flyers exactly, whatever the zones' estimated addresses are; the
\* rounding difference goes to the first route only.
C1_FlyersAddUp ==
    (gpc = "responded" /\ status = 200) =>
        /\ Len(routes) >= 1
        /\ SumSeq(AssignedFlyers) = request.total_flyers
        /\ \A i \in 2..Len(routes) :
              routes[i].assigned_flyers
                  = FlyerShares(request.total_flyers, ZoneAddressList)[i]

\* a completed two-route request without any address whose integer split left
\* a difference for the first route
C1_Witness ==
    /\ gpc = "responded"
    /\ status = 200
    /\ Len(routes) = 2
    /\ SumSeq(ZoneAddressList) = 0
    /\ routes[1].assigned_flyers
          # FlyerShares(request.total_flyers, ZoneAddressList)[1]

\* C8: the job store is written only as the last step of a request whose whole
\* pipeline completed; a request answered with an error leaves it as it was.
C8_StoreOnlyAtCompletion ==
    [][/\ jobs' # jobs =>
            /\ gpc = "routed"
            /\ status' = 200
            /\ stages' = AllStages
       /\ (gpc' = "responded" /\ status' # 200) => jobs' = jobs]_vars

\* a request that failed in the routing step while the store held a job
C8_Witness ==
    /\ gpc = "responded"
    /\ status = 500
    /\ Len(stages) = 5
    /\ DOMAIN jobs # {}

\* C9: the answer is 400, and no later step runs, when num_routes is outside
\* 1..20, when area.type is neither circle nor polygon, when a polygon has fewer
\* than 3 points, or when the pruned graph has no edge.
C9_Rejected400 ==
    gpc = "responded" =>
        /\ (request.num_routes < 1 \/ request.num_routes > 20)
              => (status = 400 /\ stages = <<>>)
        /\ request.area.type \notin {"circle", "polygon"}
              => (status = 400 /\ stages = <<>>)
        /\ (request.area.type = "polygon" /\ request.area.points < 3)
              => (status = 400 /\ stages = <<>>)
        /\ (Len(stages) >= 2 /\ G_pruned.edges = {})
              => (status = 400 /\ stages = <<"geometry", "ingest">>)

\* a request rejected because the filter left no road
C9_Witness ==
    /\ gpc = "responded"
    /\ status = 400
    /\ stages = <<"geometry", "ingest">>
    /\ G_pruned.edges = {}
    /\ request.num_routes \in 1..20

\* C10: a request with an unknown travel_mode or balance_priority is rejected
\* with status 400 and produces no routes and no job (the answers to a failure
\* of the provider or of the router apart).
C10_UnknownModeRejected ==
    (/\ gpc = "responded"
     /\ status # 500
     /\ \/ request.travel_mode \notin {"walking", "driving"}
        \/ request.balance_priority \notin {"density", "area"})
    => (status = 400 /\ routes = <<>> /\ stages # AllStages)

----------------------------------------------------------------------------
(* Area properties *)

\* C11: a circle with radius <= 0 or a centre latitude of absolute value > 90
\* fails with InvalidArea: no polygon is produced and the request does not
\* proceed to the map provider.
C11_BadCircleRejected ==
    (radius_m <= 0 \/ center_lat > 90 \/ center_lat < -90)
    => (polygon = NoPolygon /\ apc # "provider")

----------------------------------------------------------------------------
(* Export properties *)

ExportAnswered == export_response # NoResponse

\* C12: an export for a job id that is not in the store returns 404, a GPX
\* export of a stored job for a route_id none of its routes has returns 404, an
\* export of a stored job returns that job's routes, and no export changes the
\* job store.
C12_Exports ==
    /\ [](ExportAnswered =>
            LET q == export_request
                a == export_response
            IN  /\ q.job_id \notin DOMAIN jobs => a.status = 404
                /\ (/\ q.job_id \in DOMAIN jobs
                    /\ q.has_route_id
                    /\ \A i \in 1..Len(jobs[q.job_id].routes) :
                          jobs[q.job_id].routes[i].route_id # q.route_id)
                   => a.status = 404
                /\ (/\ q.job_id \in DOMAIN jobs
                    /\ q.has_route_id
                    /\ \E i \in 1..Len(jobs[q.job_id].routes) :
                          jobs[q.job_id].routes[i].route_id = q.route_id)
                   => /\ a.status = 200
                      /\ Len(a.routes) = 1
                      /\ a.routes[1].route_id = q.route_id
                      /\ \E i \in 1..Len(jobs[q.job_id].routes) :
                            a.routes[1] = jobs[q.job_id].routes[i]
                /\ (q.job_id \in DOMAIN jobs /\ ~q.has_route_id)
                   => (a.status = 200 /\ a.routes = jobs[q.job_id].routes))
    /\ [][exportVars' # exportVars => jobs' = jobs]_vars

\* a GPX export of a stored job, after two generate requests, for a route the
\* job does not have
C12_Witness ==
    /\ ExportAnswered
    /\ export_request.job_id \in DOMAIN jobs
    /\ export_request.has_route_id
    /\ export_response.status = 404
    /\ Cardinality(DOMAIN jobs) = 2

----------------------------------------------------------------------------
(* Density properties *)

\* the least distance of a building to any edge
MinDist(b) == Min({b.dist[i] : i \in 1..Len(b.dist)})

\* the buildings (by position) within the acceptance radius
Within == {k \in 1..Len(buildings) : MinDist(buildings[k]) < max_distance_m}

\* the unit estimates of a set of buildings, added up
UnitsOf(K) == SumOver(K, [k \in 1..Len(buildings) |-> estimate_units_per_building(buildings[k])])

\* C13: after assign_buildings_to_edges with a non-empty building list the
\* estimated_addresses add up to the units of exactly the buildings whose least
\* distance to an edge is strictly below the threshold, each counted on one edge
\* that is at its least distance; with an empty list every edge carries
\* floor((length / 100) * rho(highway)).
C13_AssignedAddresses ==
    dpc = "assigned" =>
        /\ buildings # <<>> =>
              /\ SumSeq(edge_addresses) = UnitsOf(Within)
              /\ \A i \in 1..Len(density_G) :
                    /\ edge_addresses[i] <=
                          UnitsOf({k \in Within : buildings[k].dist[i] = MinDist(buildings[k])})
                    /\ edge_addresses[i] >=
                          UnitsOf({k \in Within : \A j \in 1..Len(density_G) :
                                      j # i => buildings[k].dist[j] > buildings[k].dist[i]})
        /\ buildings = <<>> =>
              \A i \in 1..Len(density_G) :
                  edge_addresses[i] =
                      (density_G[i].length
                         * density_map(density_G[i].highway.items[1])) \div 100

\* two buildings and two edges: one building at the threshold (left out), one
\* within it and equally near to both edges (counted once)
C13_Witness ==
    /\ dpc = "assigned"
    /\ Len(buildings) = 2
    /\ Len(density_G) = 2
    /\ MinDist(buildings[1]) = max_distance_m
    /\ buildings[2].dist[1] = buildings[2].dist[2]
    /\ buildings[2].dist[1] < max_distance_m
    /\ SumSeq(edge_addresses) = estimate_units_per_building(buildings[2])

\* C14: after the density stage the total of estimated_addresses over a pruned
\* graph with at least one edge is non-zero.
C14_TotalNonZero ==
    (dpc = "estimated" /\ Len(density_G) >= 1)
    => (total_addresses # 0 /\ SumSeq(edge_addresses) # 0)

----------------------------------------------------------------------------
(* Closing and bridging properties of the router *)

\* consecutive nodes of p are joined by a step of R
IsWalkIn(R, p) == \A i \in 1..(Len(p) - 1) : p[i + 1] \in neighbors(R, p[i])

\* the length of p by weight="length"
RECURSIVE WalkLength(_, _)
WalkLength(R, p) ==
    IF Len(p) <= 1 THEN 0
    ELSE StepWeight(R, p[1], p[2]) + WalkLength(R, Tail(p))

\* the nodes a step has appended to the route
Appended == SubSeq(route', Len(route) + 1, Len(route'))

\* the closing step of generate_simple_route
Closing == rpc = "loop" /\ rpc' = "done"

\* C15 (as the code has it): with return_to_start true, a loop that ended away
\* from the start node and has a path back gets a shortest path by length to the
\* start node appended, so the walk ends where it started; this is always so in
\* walking mode.  When there is no path back, when the loop ended at the start
\* node, or with return_to_start false, nothing is appended.
C15_ClosedWhenPathExists ==
    [][Closing =>
        /\ SubSeq(route', 1, Len(route)) = route
        /\ (return_to_start' /\ current # start_node
                /\ start_node \in Descendants(G_route, {current}))
           => /\ Appended # <<>>
              /\ IsWalkIn(G_route, <<current>> \o Appended)
              /\ WalkLength(G_route, <<current>> \o Appended)
                    = Distances(G_route, current)[start_node]
              /\ route'[Len(route')] = start_node
              /\ route'[1] = start_node
        /\ ~(return_to_start' /\ current # start_node
                /\ start_node \in Descendants(G_route, {current}))
           => route' = route
        /\ (return_to_start' /\ travel_mode = "walking" /\ route # <<>>)
           => route'[Len(route')] = route'[1]
      ]_vars

\* a loop that ended away from the start node, closed by a path of two steps
C15_Witness ==
    /\ rpc = "done"
    /\ return_to_start
    /\ current # start_node
    /\ Len(route) >= 2
    /\ route[Len(route)] = start_node
    /\ route[Len(route) - 1] # current

\* C15 as stated: with return_to_start true the returned walk ends at the node
\* it started from.
C15_EndsAtStart ==
    (rpc = "done" /\ return_to_start /\ route # <<>>)
    => route[Len(route)] = route[1]

----------------------------------------------------------------------------
(* Ingest properties *)

KeptClasses ==
    {"residential", "living_street", "service", "unclassified", "tertiary",
     "secondary", "tertiary_link", "secondary_link", "footway", "path", "pedestrian"}

\* the class of a tag: the tag itself, or the first element of a list
ClassOf(tag) == IF tag.list THEN Head(tag.items) ELSE tag.items[1]

\* C16: after ingest every edge has a length, a name and a highway tag that is
\* a single scalar string, the first element of the provider's list when the
\* provider yields one.
C16_ScalarHighway ==
    ipc = "filtered" =>
        \A e \in ingested_G.edges :
            /\ e.length \in Nat
            /\ e.name \in STRING
            /\ ~e.highway.list
            /\ \A p \in provider_G.edges :
                  (p.u = e.u /\ p.v = e.v /\ p.key = e.key /\ p.highway # {})
                  => \A t \in p.highway : e.highway = Scalar(ClassOf(t))

\* C17: every edge of the filtered graph has a kept class, every edge of the
\* input with a kept class is in it, no node of it is without an incident edge,
\* and the input graph is as fetch_road_network returned it.
C17_FilterKeepsClasses ==
    ipc = "filtered" =>
        /\ \A e \in ingested_G.edges : ClassOf(e.highway) \in KeptClasses
        /\ \A e \in fetched_G.edges :
              ClassOf(e.highway) \in KeptClasses => e \in ingested_G.edges
        /\ ingested_G.edges \subseteq fetched_G.edges
        /\ \A n \in ingested_G.nodes :
              \E e \in ingested_G.edges : e.u = n \/ e.v = n
        /\ ingested_G.nodes \subseteq fetched_G.nodes
        /\ fetched_G = fetch_road_network(provider_G)

\* a motorway edge and its far node are dropped, an edge with a list tag whose
\* first element is residential is kept
C17_Witness ==
    /\ ipc = "filtered"
    /\ ingested_G.nodes # fetched_G.nodes
    /\ \E e \in fetched_G.edges : e \notin ingested_G.edges
    /\ \E e \in ingested_G.edges : e.highway.list

----------------------------------------------------------------------------
(* Job store properties *)

\* the step of generate_routes that stores the job record
Storing == gpc = "routed" /\ gpc' = "responded"

\* C18: each job record is stored under a job id that is not yet a key of the
\* job store, so no stored job is replaced and every earlier job keeps its
\* routes.
C18_FreshJobId ==
    [][Storing =>
        /\ \E j \in DOMAIN jobs' : j \notin DOMAIN jobs
        /\ \A j \in DOMAIN jobs : j \in DOMAIN jobs' /\ jobs'[j] = jobs[j]
      ]_vars


\* result["summary"] of the job record, from the locals of the handler
\* (total_addresses is the total over the pruned graph)
JobSummary ==
    [total_addresses_estimated |-> SumOver(G_pruned.edges, estimated_addresses)]

AtDeadEnd == rpc = "loop" /\ LoopCond /\ Unvisited = {}

\* C20: at a node without an unvisited incident edge the step appends a
\* length-shortest path from the current node to a node of a still-unvisited
\* edge, no path found to another reachable target having fewer nodes, and
\* leaves the visited edges as they are; when no such node is reachable the loop
\* ends.
C20_BridgingStep ==
    [][AtDeadEnd =>
        IF ReachableTargets = {}
        THEN rpc' = "done" /\ visited_edges' = visited_edges
        ELSE /\ rpc' = "loop"
             /\ visited_edges' = visited_edges
             /\ iterations' = iterations + 1
             /\ SubSeq(route', 1, Len(route)) = route
             /\ current' \in nodes_with_unvisited
             /\ IsWalkIn(G_route, <<current>> \o Appended)
             /\ (<<current>> \o Appended)[Len(Appended) + 1] = current'
             /\ WalkLength(G_route, <<current>> \o Appended)
                   = Distances(G_route, current)[current']
             /\ \A t \in ReachableTargets :
                   \E p \in shortest_path(G_route, current, t) :
                       Len(Appended) + 1 <= Len(p)
      ]_vars

\* the loop after a bridging step that appended nodes: the route is longer than
\* the visits alone make it
C20_Witness ==
    /\ rpc = "loop"
    /\ Len(route) > 1 + Cardinality(visited_edges)
    /\ Unvisited # {}


\* C21: every iteration of the edge-cover loop either marks an unvisited edge
\* as visited or moves the current node to another node that has an unvisited
\* edge to take, and the loop never ends by the iteration cap.
C21_LoopProgress ==
    [][rpc = "loop" =>
        IF rpc' = "loop"
        THEN \/ visited_edges' # visited_edges
             \/ (current' # current /\ Unvisited' # {})
        ELSE stop_reason' # "cap"
      ]_vars


\* C22: for a waypoint list of at least 2 entries the origin of the URL is the
\* first waypoint and the destination the last waypoint, subsampled or not; for
\* fewer than 2 waypoints the URL is the empty string.
C22_OriginAndDestination ==
    upc = "done" =>
        IF Len(waypoints) >= 2
        THEN /\ gmaps_url.origin = waypoints[1]
             /\ gmaps_url.destination = waypoints[Len(waypoints)]
        ELSE gmaps_url = NoUrl

====
